---- MODULE Spec2Model ----
(***************************************************************************)
(* The trivia API (projects/02_trivia_api/starter/backend/flaskr):          *)
(* a store of questions and categories and the Flask request handlers of    *)
(* create_app.  One action per endpoint; each action is the whole handler,  *)
(* from the parsing of the request to the JSON response.                    *)
(*                                                                          *)
(* JSON values are tagged so that a string and a number can be compared as  *)
(* Python compares them (unequal, no error): Str(s) is the string whose     *)
(* characters are the sequence s, Num(n) the number n.  A JSON object is a  *)
(* function from its keys to values; a key that is absent is not in its     *)
(* DOMAIN.                                                                  *)
(*                                                                          *)
(* The booking app (projects/01_fyyur/starter_code/app.py): the Venue       *)
(* table and the handler of GET /venues.                                    *)
(***************************************************************************)
EXTENDS Integers, Sequences, FiniteSets, TLC

VARIABLES
    questions,   \* the rows of the questions table
    categories,  \* the rows of the categories table
    nextId,      \* the next value of the questions id sequence
    request,     \* the request handled last
    response,    \* the response to it: [status, body]
    before,      \* questions and nextId as that request found them
    quiz,        \* a POST /quizzes handler between its two queries, if any
    Venue       \* the rows of the booking app's Venue table

vars == <<questions, categories, nextId, request, response, before, quiz,
          Venue>>

\* no POST /quizzes handler is between its queries
Idle == [pc |-> "idle"]

\* every handler starts from the store as it is
Arrive == before' = [questions |-> questions, nextId |-> nextId]

----------------------------------------------------------------------------
(* Bounds of the model *)

\* number of questions in the seeded store
NumSeeded == 10
\* number of questions POST /questions may add
MaxCreated == 2
\* page arguments range from -2 to MaxPage
MaxPage == 3
\* the helper alone is called on lists of up to MaxItems questions
MaxItems == 12
\* and with page sizes up to MaxPageSize
MaxPageSize == 11

(* Program constants *)

QUESTIONS_PER_PAGE == 10

----------------------------------------------------------------------------
(* JSON values and Python helpers *)

Str(s) == [str |-> s]
Num(n) == [num |-> n]
EmptyStr == Str(<<>>)

\* dict.get(key, default)
Get(data, key, default) == IF key \in DOMAIN data THEN data[key] ELSE default

Min(a, b) == IF a < b THEN a ELSE b
Max(a, b) == IF a > b THEN a ELSE b

\* Python's list[start:end]: a negative index counts from the end, and both
\* are clipped to the list.
Slice(list, start, end) ==
    LET n == Len(list)
        s == IF start < 0 THEN Max(n + start, 0) ELSE Min(start, n)
        e == IF end < 0 THEN Max(n + end, 0) ELSE Min(end, n)
    IN  SubSeq(list, s + 1, e)

----------------------------------------------------------------------------
(* The store: models.py's Question and Category over the database *)

\* Question.format(): the row as a JSON object
Format(q) ==
    [id |-> q.id, question |-> q.question, answer |-> q.answer,
     category |-> q.category, difficulty |-> q.difficulty]

\* the seeded rows: questions 1..3 are of category 2, the others of category 1;
\* category 3 has no question
SeedQuestion(i) ==
    [id |-> i,
     question |-> Str(IF i % 2 = 1 THEN <<"T", "i">> ELSE <<"a", "b">>),
     answer |-> Str(<<"x">>),
     category |-> Num(IF i <= 3 THEN 2 ELSE 1),
     difficulty |-> Num(1)]

SeedQuestions(n) == { SeedQuestion(i) : i \in 1..n }

SeedCategories ==
    { [id |-> 1, type |-> "Science"],
      [id |-> 2, type |-> "Art"],
      [id |-> 3, type |-> "Geography"] }

\* query.order_by(id).all()
RECURSIVE OrderById(_)
OrderById(rows) ==
    IF rows = {} THEN <<>>
    ELSE LET first == CHOOSE r \in rows : \A o \in rows : r.id <= o.id
         IN  <<first>> \o OrderById(rows \ {first})

Reverse(list) == [i \in 1..Len(list) |-> list[Len(list) + 1 - i]]

\* query.all() without order_by: the database fixes no order; the model lets
\* it be the id order or its reverse
Orders == {"asc", "desc"}
All(rows, order) ==
    IF order = "asc" THEN OrderById(rows) ELSE Reverse(OrderById(rows))

\* Question.query.get(id): the rows with that primary key (none or one)
QueryGet(id) == { q \in questions : q.id = id }

\* filter_by(category=c)
FilterByCategory(rows, c) == { q \in rows : q.category = Num(c) }

----------------------------------------------------------------------------
(* get_paginated_questions *)

\* request.args.get('page', 1, type=int)
PageArg(args) == IF "page" \in DOMAIN args THEN args.page ELSE 1

\* get_paginated_questions with pages counted from 0
get_paginated_questions_FromZero(args, rows, num_of_questions) ==
    LET page == PageArg(args)
        start == page * num_of_questions
        end == start + num_of_questions
        formatted == [i \in 1..Len(rows) |-> Format(rows[i])]
    IN  Slice(formatted, start, end)

get_paginated_questions(args, rows, num_of_questions) ==
    LET page == PageArg(args)
        start == (page - 1) * num_of_questions
        end == start + num_of_questions
        formatted == [i \in 1..Len(rows) |-> Format(rows[i])]
    IN  Slice(formatted, start, end)

----------------------------------------------------------------------------
(* The error handlers *)

bad_request ==
    [status |-> 400,
     body |-> ("success" :> FALSE) @@ (" " :> 400)
              @@ ("message" :> "Bad request error")]

not_found ==
    [status |-> 404,
     body |-> ("success" :> FALSE) @@ ("error" :> 404)
              @@ ("message" :> "Resource not found")]

internal_server_error ==
    [status |-> 500,
     body |-> ("success" :> FALSE) @@ ("error" :> 500)
              @@ ("message" :> "An error has occured, please try again")]

unprocesable_entity ==
    [status |-> 422,
     body |-> ("success" :> FALSE) @@ ("error" :> 422)
              @@ ("message" :> "Unprocessable entity")]

\* abort(code): the response of the handler registered for code
Abort(code) ==
    CASE code = 400 -> bad_request
      [] code = 404 -> not_found
      [] code = 422 -> unprocesable_entity
      [] code = 500 -> internal_server_error

\* {id: type} of the categories
CategoriesDict(cats) ==
    [i \in { c.id : c \in cats } |-> (CHOOSE c \in cats : c.id = i).type]

----------------------------------------------------------------------------
(* Requests *)

NoArgs == [x \in {} |-> 0]
\* ?page=p, or no page argument
PageArgs == {NoArgs} \cup { [page |-> p] : p \in (0 - 2)..MaxPage }
SearchArgs == {NoArgs, [page |-> 2]}

----------------------------------------------------------------------------
(* GET /questions *)

\* get_questions_response with total_questions counting the page
get_questions_response_PageTotal(stored, cats, args) ==
    LET rows == OrderById(stored)
        current_questions ==
            get_paginated_questions(args, rows, QUESTIONS_PER_PAGE)
    IN  IF Len(current_questions) = 0
        THEN Abort(404)
        ELSE [status |-> 200,
              body |-> [success |-> TRUE,
                        total_questions |-> Len(current_questions),
                        categories |-> CategoriesDict(cats),
                        questions |-> current_questions]]

\* get_questions_response without the page argument: always the first page
get_questions_response_FirstPage(stored, cats, args) ==
    LET rows == OrderById(stored)
        total_questions == Len(rows)
        current_questions ==
            get_paginated_questions(NoArgs, rows, QUESTIONS_PER_PAGE)
    IN  IF Len(current_questions) = 0
        THEN Abort(404)
        ELSE [status |-> 200,
              body |-> [success |-> TRUE,
                        total_questions |-> total_questions,
                        categories |-> CategoriesDict(cats),
                        questions |-> current_questions]]

\* the handler's response, on the tables stored and cats
get_questions_response(stored, cats, args) ==
    LET rows == OrderById(stored)
        total_questions == Len(rows)
        current_questions ==
            get_paginated_questions(args, rows, QUESTIONS_PER_PAGE)
    IN  IF Len(current_questions) = 0
        THEN Abort(404)
        ELSE [status |-> 200,
              body |-> [success |-> TRUE,
                        total_questions |-> total_questions,
                        categories |-> CategoriesDict(cats),
                        questions |-> current_questions]]

get_questions(args) ==
    /\ Arrive
    /\ UNCHANGED <<quiz, Venue>>
    /\ request' = [endpoint |-> "get_questions", args |-> args]
    /\ response' = get_questions_response(questions, categories, args)
    /\ UNCHANGED <<questions, categories, nextId>>

----------------------------------------------------------------------------
(* GET /categories *)

get_all_categories_response ==
    [status |-> 200,
     body |-> [success |-> TRUE, categories |-> CategoriesDict(categories)]]

get_all_categories ==
    /\ Arrive
    /\ UNCHANGED <<quiz, Venue>>
    /\ request' = [endpoint |-> "get_all_categories"]
    /\ response' = get_all_categories_response
    /\ UNCHANGED <<questions, categories, nextId>>

----------------------------------------------------------------------------
(* DELETE /questions/<int:id> *)

\* Question.delete(): the row leaves the table
Delete(rows, q) == rows \ {q}

\* delete_question_response without the failure on an unknown id
delete_question_response_Always200(id) ==
    [status |-> 200,
     body |-> [success |-> TRUE,
               question_id |-> id,
               message |-> "Question successfully deleted"]]

\* Question.query.get(id) gives None for an unknown id, question.delete()
\* then raises, and the bare except answers 404
delete_question_response(id) ==
    IF QueryGet(id) = {}
    THEN Abort(404)
    ELSE [status |-> 200,
          body |-> [success |-> TRUE,
                    question_id |-> id,
                    message |-> "Question successfully deleted"]]

\* delete_question answering as it does and deleting nothing
delete_question_NoDelete(id) ==
    /\ Arrive
    /\ UNCHANGED <<quiz, Venue>>
    /\ request' = [endpoint |-> "delete_question", id |-> id]
    /\ response' = delete_question_response(id)
    /\ UNCHANGED <<questions, categories, nextId>>

delete_question(id) ==
    /\ Arrive
    /\ UNCHANGED <<quiz, Venue>>
    /\ request' = [endpoint |-> "delete_question", id |-> id]
    /\ response' = delete_question_response(id)
    /\ questions' = IF QueryGet(id) = {}
                    THEN questions
                    ELSE Delete(questions, CHOOSE q \in QueryGet(id) : TRUE)
    /\ UNCHANGED <<categories, nextId>>

----------------------------------------------------------------------------
(* POST /questions *)

\* request.get_json() of a body: "malformed" is a body that is no JSON (Flask
\* raises BadRequest), "nonobject" a JSON value that is no object (it has no
\* .get), "object" a JSON object
JsonKinds == {"malformed", "nonobject", "object"}

CreateKeys == {"question", "answer", "difficulty", "category"}

\* bodies with all four fields; the category is 3 (a category without seeded
\* questions) or 4 (no category has this id)
FullBodies ==
    { [question |-> Str(<<"T", "i">>), answer |-> Str(<<"x">>),
       difficulty |-> Num(1), category |-> Num(c)] : c \in {3, 4} }

Without(data, key) == [k \in DOMAIN data \ {key} |-> data[k]]

\* the request bodies tried: a full body, a full body with one field left out
\* or sent as the empty string, and the empty object
CreateBodies ==
    FullBodies
    \cup { Without(data, k) : data \in FullBodies, k \in CreateKeys }
    \cup { [data EXCEPT ![k] = EmptyStr] : data \in FullBodies, k \in CreateKeys }
    \cup { [x \in {} |-> 0] }

\* AnyFieldEmpty without the test of difficulty
AnyFieldEmpty_NoDifficulty(question, answer, difficulty, category) ==
    \/ question = EmptyStr
    \/ answer = EmptyStr
    \/ category = EmptyStr

\* the test of lines 145-146
AnyFieldEmpty(question, answer, difficulty, category) ==
    \/ question = EmptyStr
    \/ answer = EmptyStr
    \/ difficulty = EmptyStr
    \/ category = EmptyStr

\* Question(...).insert(): the row gets the next id of the sequence
Insert(rows, id, question, answer, difficulty, category) ==
    rows \cup { [id |-> id, question |-> question, answer |-> answer,
                 category |-> category, difficulty |-> difficulty] }

create_question(json, data) ==
    LET question == Get(data, "question", EmptyStr)
        answer == Get(data, "answer", EmptyStr)
        difficulty == Get(data, "difficulty", EmptyStr)
        category == Get(data, "category", EmptyStr)
    IN  /\ Arrive
        /\ UNCHANGED <<quiz, Venue>>
        /\ request' = [endpoint |-> "create_question", json |-> json,
                       data |-> data]
        /\ IF json = "malformed"
           THEN /\ response' = Abort(400)
                /\ UNCHANGED <<questions, nextId>>
           ELSE IF json = "nonobject"
           THEN /\ response' = Abort(500)
                /\ UNCHANGED <<questions, nextId>>
           ELSE IF AnyFieldEmpty(question, answer, difficulty, category)
           THEN /\ response' = Abort(422)
                /\ UNCHANGED <<questions, nextId>>
           ELSE /\ nextId <= NumSeeded + MaxCreated
                /\ questions' = Insert(questions, nextId, question, answer,
                                       difficulty, category)
                /\ nextId' = nextId + 1
                /\ response' =
                       [status |-> 200,
                        body |-> [success |-> TRUE,
                                  question_id |-> nextId,
                                  message |-> "Question successfully created!"]]
        /\ UNCHANGED categories

----------------------------------------------------------------------------
(* POST /questions/search *)

\* ILIKE folds case
Lower(c) ==
    CASE c = "T" -> "t"
      [] c = "I" -> "i"
      [] c = "A" -> "a"
      [] OTHER -> c

\* SQL LIKE: % matches any run of characters, _ any one character
RECURSIVE Like(_, _)
Like(text, pattern) ==
    IF pattern = <<>> THEN text = <<>>
    ELSE IF Head(pattern) = "%"
    THEN \/ Like(text, Tail(pattern))
         \/ text # <<>> /\ Like(Tail(text), pattern)
    ELSE IF Head(pattern) = "_"
    THEN text # <<>> /\ Like(Tail(text), Tail(pattern))
    ELSE /\ text # <<>>
         /\ Lower(Head(text)) = Lower(Head(pattern))
         /\ Like(Tail(text), Tail(pattern))

\* Question.question.ilike(f'%{search_term}%')
SearchFilter(rows, search_term) ==
    { q \in rows : Like(q.question.str, <<"%">> \o search_term.str \o <<"%">>) }

SearchTerms == { EmptyStr, Str(<<"t", "I">>), Str(<<"_">>), Str(<<"z">>) }

SearchBodies ==
    { [x \in {} |-> 0] } \cup { [searchTerm |-> t] : t \in SearchTerms }

search_questions_response(json, data, args, order) ==
    IF json = "malformed" THEN Abort(400)
    ELSE IF json = "nonobject" THEN Abort(500)
    ELSE LET search_term == Get(data, "searchTerm", EmptyStr)
             rows == All(SearchFilter(questions, search_term), order)
         IN  IF Len(rows) = 0
             THEN Abort(404)
             ELSE [status |-> 200,
                   body |-> [success |-> TRUE,
                             questions |->
                                 get_paginated_questions(
                                     args, rows, QUESTIONS_PER_PAGE),
                             total_questions |-> Cardinality(questions)]]

search_questions(json, data, args, order) ==
    /\ Arrive
    /\ UNCHANGED <<quiz, Venue>>
    /\ request' = [endpoint |-> "search_questions", json |-> json,
                   data |-> data, args |-> args]
    /\ response' = search_questions_response(json, data, args, order)
    /\ UNCHANGED <<questions, categories, nextId>>

----------------------------------------------------------------------------
(* GET /categories/<int:id>/questions *)

CategoryIds == {1, 2, 3, 4}

\* get_questions_by_category_response without the filter on the category
get_questions_by_category_response_NoFilter(stored, cats, id, args, order) ==
    LET category == { c \in cats : c.id = id }
        rows == All(stored, order)
        paginated_questions ==
            get_paginated_questions(args, rows, QUESTIONS_PER_PAGE)
    IN  IF category = {} THEN Abort(422)
        ELSE IF Len(paginated_questions) = 0 THEN Abort(404)
        ELSE [status |-> 200,
              body |-> [success |-> TRUE,
                        questions |-> paginated_questions,
                        total_questions |-> Len(rows),
                        current_category |->
                            (CHOOSE c \in category : TRUE).type]]

\* the handler's response, on the tables stored and cats
get_questions_by_category_response(stored, cats, id, args, order) ==
    LET category == { c \in cats : c.id = id }
        rows == All(FilterByCategory(stored, id), order)
        paginated_questions ==
            get_paginated_questions(args, rows, QUESTIONS_PER_PAGE)
    IN  IF category = {} THEN Abort(422)
        ELSE IF Len(paginated_questions) = 0 THEN Abort(404)
        ELSE [status |-> 200,
              body |-> [success |-> TRUE,
                        questions |-> paginated_questions,
                        total_questions |-> Len(rows),
                        current_category |->
                            (CHOOSE c \in category : TRUE).type]]

get_questions_by_category(id, args, order) ==
    /\ Arrive
    /\ UNCHANGED <<quiz, Venue>>
    /\ request' = [endpoint |-> "get_questions_by_category", id |-> id,
                   args |-> args]
    /\ response' = get_questions_by_category_response(
                       questions, categories, id, args, order)
    /\ UNCHANGED <<questions, categories, nextId>>

----------------------------------------------------------------------------
(* POST /quizzes *)

PrevLists == { <<>>, <<1, 2>>, <<1, 2, 3>>, <<NumSeeded + 1>> }

\* quiz_category is an object with an id, or one without
QuizCategories == { [x \in {} |-> 0] } \cup { [id |-> c] : c \in {0, 2, 3, 4} }

QuizBodies ==
    { [previous_questions |-> p, quiz_category |-> c] :
        p \in PrevLists, c \in QuizCategories }
    \cup { [previous_questions |-> p] : p \in PrevLists }
    \cup { [quiz_category |-> c] : c \in QuizCategories }
    \cup { [x \in {} |-> 0] }

Range(list) == { list[i] : i \in 1..Len(list) }

\* QuizQuery without the exclusion of the previous questions
QuizQuery_NoExclusion(rows, quiz_category, previous_questions) ==
    IF quiz_category.id # 0
    THEN FilterByCategory(rows, quiz_category.id)
    ELSE rows

\* the query of lines 256-262
QuizQuery(rows, quiz_category, previous_questions) ==
    LET of_category ==
            IF quiz_category.id # 0
            THEN FilterByCategory(rows, quiz_category.id)
            ELSE rows
    IN  { q \in of_category : q.id \notin Range(previous_questions) }

\* the cases in which the try block raises before the query is run
\* (get_json raising, data.get missing, abort(400), quiz_category['id'] missing)
QuizRaises(json, data) ==
    \/ json # "object"
    \/ "quiz_category" \notin DOMAIN data
    \/ "previous_questions" \notin DOMAIN data
    \/ "id" \notin DOMAIN data.quiz_category

play_quiz_question(json, data) ==
    /\ Arrive
    /\ UNCHANGED <<quiz, Venue>>
    /\ request' = [endpoint |-> "play_quiz_question", json |-> json,
                   data |-> data]
    /\ IF QuizRaises(json, data)
       THEN response' = Abort(422)
       ELSE LET eligible == QuizQuery(questions, data.quiz_category,
                                      data.previous_questions)
            IN  IF eligible = {}
                THEN response' = Abort(422)
                ELSE \E question \in eligible :
                        response' =
                            [status |-> 200,
                             body |-> [success |-> TRUE,
                                       question |-> Format(question),
                                       totalQuestions |->
                                           Cardinality(eligible)]]
    /\ UNCHANGED <<questions, categories, nextId>>

----------------------------------------------------------------------------
\* the ids DELETE is tried on: the questions POST may add, and an id no
\* question ever has
DeleteIds == (NumSeeded + 1)..(NumSeeded + MaxCreated + 1)

Init ==
    /\ questions = SeedQuestions(NumSeeded)
    /\ categories = SeedCategories
    /\ nextId = NumSeeded + 1
    /\ request = [endpoint |-> "none"]
    /\ response = [status |-> 0]
    /\ before = [questions |-> questions, nextId |-> nextId]
    /\ quiz = Idle
    /\ Venue = {}

Next ==
    \/ get_all_categories
    \/ \E args \in PageArgs : get_questions(args)
    \/ \E id \in DeleteIds : delete_question(id)
    \/ \E json \in JsonKinds :
          \E data \in (IF json = "object" THEN CreateBodies ELSE {NoArgs}) :
             create_question(json, data)
    \/ \E json \in JsonKinds :
          \E data \in (IF json = "object" THEN SearchBodies ELSE {NoArgs}) :
             \E args \in (IF json = "object" THEN SearchArgs ELSE {NoArgs}),
                order \in (IF json = "object" THEN Orders ELSE {"asc"}) :
                search_questions(json, data, args, order)
    \/ \E id \in CategoryIds, args \in SearchArgs, order \in Orders :
          get_questions_by_category(id, args, order)
    \/ \E json \in JsonKinds :
          \E data \in (IF json = "object" THEN QuizBodies ELSE {NoArgs}) :
             play_quiz_question(json, data)

Spec == Init /\ [][Next]_vars

----------------------------------------------------------------------------
(* The handlers when a call of the store (a query, insert() or delete())   *)
(* raises.  The request is one that gets as far as the store call.         *)

Endpoints ==
    {"get_all_categories", "get_questions", "delete_question",
     "create_question", "search_questions", "get_questions_by_category",
     "play_quiz_question"}

\* what each handler answers when its store call raises: get_all_categories
\* catches and aborts 500; get_questions and get_questions_by_category have
\* no try, so Flask answers through the 500 handler; the bare excepts of
\* delete_question and search_questions abort 404, those of create_question
\* and play_quiz_question abort 422
StoreFailureResponse(endpoint) ==
    CASE endpoint = "get_all_categories" -> Abort(500)
      [] endpoint = "get_questions" -> Abort(500)
      [] endpoint = "get_questions_by_category" -> Abort(500)
      [] endpoint = "delete_question" -> Abort(404)
      [] endpoint = "search_questions" -> Abort(404)
      [] endpoint = "create_question" -> Abort(422)
      [] endpoint = "play_quiz_question" -> Abort(422)

\* a request to endpoint during which the store call raises; nothing is
\* committed
store_failure(endpoint) ==
    /\ Arrive
    /\ UNCHANGED <<quiz, Venue>>
    /\ request' = [endpoint |-> endpoint, store |-> "raises"]
    /\ response' = StoreFailureResponse(endpoint)
    /\ UNCHANGED <<questions, categories, nextId>>

NextFault ==
    \/ Next
    \/ \E endpoint \in Endpoints : store_failure(endpoint)

SpecFault == Init /\ [][NextFault]_vars

----------------------------------------------------------------------------
(* POST /quizzes in its two store queries, with the POST /questions and    *)
(* DELETE /questions/<id> requests of other clients between them.  Each    *)
(* query reads the store as committed when the query runs.                 *)

\* the quiz bodies tried here: every question or category 3, nothing or the
\* first created question excluded; and a body without the fields
ConcQuizBodies ==
    { [previous_questions |-> p, quiz_category |-> [id |-> c]] :
        p \in { <<>>, <<NumSeeded + 1>> }, c \in {0, 3} }
    \cup { [x \in {} |-> 0] }

\* lines 249-272: the body is read and the first query picks a question; a
\* raise, as on an empty result, ends the request with 422
quiz_pick(json, data) ==
    /\ quiz = Idle
    /\ IF QuizRaises(json, data)
       THEN /\ Arrive
            /\ request' = [endpoint |-> "play_quiz_question", json |-> json,
                           data |-> data]
            /\ response' = Abort(422)
            /\ quiz' = Idle
       ELSE LET eligible == QuizQuery(questions, data.quiz_category,
                                      data.previous_questions)
            IN  IF eligible = {}
                THEN /\ Arrive
                     /\ request' = [endpoint |-> "play_quiz_question",
                                    json |-> json, data |-> data]
                     /\ response' = Abort(422)
                     /\ quiz' = Idle
                ELSE /\ \E question \in eligible :
                           quiz' = [pc |-> "picked", data |-> data,
                                    question_dict |-> Format(question)]
                     /\ UNCHANGED <<request, response, before>>
    /\ UNCHANGED <<questions, categories, nextId, Venue>>

\* lines 274-280: the second query counts and the response is sent
quiz_count ==
    /\ quiz # Idle
    /\ Arrive
    /\ request' = [endpoint |-> "play_quiz_question", json |-> "object",
                   data |-> quiz.data]
    /\ LET total_questions ==
               Cardinality(QuizQuery(questions, quiz.data.quiz_category,
                                     quiz.data.previous_questions))
       IN  response' = [status |-> 200,
                        body |-> [success |-> TRUE,
                                  question |-> quiz.question_dict,
                                  totalQuestions |-> total_questions]]
    /\ quiz' = Idle
    /\ UNCHANGED <<questions, categories, nextId, Venue>>

NextConc ==
    \/ \E data \in ConcQuizBodies : quiz_pick("object", data)
    \/ quiz_count
    \/ \E id \in DeleteIds : delete_question(id)
    \/ \E data \in FullBodies : create_question("object", data)

SpecConc == Init /\ [][NextConc]_vars

----------------------------------------------------------------------------
(* The pagination helper alone: called with any page and page size on the  *)
(* id-ordered list of a store of 0..MaxItems questions                     *)

InitPaginate ==
    /\ \E n \in 0..MaxItems :
          /\ questions = SeedQuestions(n)
          /\ nextId = n + 1
    /\ categories = SeedCategories
    /\ request = [endpoint |-> "none"]
    /\ response = [status |-> 0]
    /\ before = [questions |-> questions, nextId |-> nextId]
    /\ quiz = Idle
    /\ Venue = {}

call_get_paginated_questions(args, num_of_questions) ==
    /\ Arrive
    /\ UNCHANGED <<quiz, Venue>>
    /\ request' = [endpoint |-> "get_paginated_questions", args |-> args,
                   num_of_questions |-> num_of_questions]
    /\ response' = get_paginated_questions(args, OrderById(questions),
                                           num_of_questions)
    /\ UNCHANGED <<questions, categories, nextId>>

NextPaginate ==
    \E args \in PageArgs, num_of_questions \in 0..MaxPageSize :
        call_get_paginated_questions(args, num_of_questions)

SpecPaginate == InitPaginate /\ [][NextPaginate]_vars

----------------------------------------------------------------------------
(* Definitions the properties are stated with, independent of the handlers *)

Ids(rows) == { q.id : q \in rows }
\* the elements of a list
FormattedSet(list) == { list[i] : i \in 1..Len(list) }

\* the elements of the id-ascending list of rows at the 0-based positions
\* [(p-1)*s, p*s), clipped to the list, by rank
PageByRank(rows, s, p) ==
    LET rank(r) == Cardinality({ o \in rows : o.id <= r.id })
        lo == (p - 1) * s
        hi == Min(p * s, Cardinality(rows))
    IN  [i \in 1..Max(hi - lo, 0) |->
            Format(CHOOSE r \in rows : rank(r) = lo + i)]

\* the questions a quiz request may be answered with, as its contract states
\* them: of category c unless c = 0, and not asked before
Eligible(c, previous) ==
    { q \in questions :
        /\ \A i \in 1..Len(previous) : q.id # previous[i]
        /\ c = 0 \/ q.category = Num(c) }

IsQuiz == request.endpoint = "play_quiz_question"
\* a quiz request whose body carries both fields and the category's id
IsFullQuiz ==
    /\ IsQuiz
    /\ request.json = "object"
    /\ {"previous_questions", "quiz_category"} \subseteq DOMAIN request.data
    /\ "id" \in DOMAIN request.data.quiz_category

----------------------------------------------------------------------------
(* C1: a successful POST /quizzes returns a question of the store that is  *)
(* not among previous_questions and is of the requested category unless    *)
(* that is 0; and when exactly one question is eligible, the request       *)
(* succeeds and returns that question.                                     *)
C1_QuizReturnsEligible ==
    /\ (IsQuiz /\ response.status = 200) =>
          LET c == request.data.quiz_category.id
              previous == request.data.previous_questions
              question == response.body.question
          IN  /\ \E q \in questions : Format(q) = question
              /\ \A i \in 1..Len(previous) : question.id # previous[i]
              /\ c # 0 => question.category = Num(c)
    /\ IsFullQuiz =>
          LET eligible == Eligible(request.data.quiz_category.id,
                                   request.data.previous_questions)
          IN  Cardinality(eligible) = 1 =>
                 /\ response.status = 200
                 /\ \E q \in eligible : response.body.question = Format(q)

\* category 2 holds the questions 1, 2 and 3, the request excludes 1 and 2,
\* and question 3 is returned
C1_Witness ==
    /\ IsFullQuiz
    /\ request.data.quiz_category.id = 2
    /\ request.data.previous_questions = <<1, 2>>
    /\ Cardinality(Eligible(2, <<1, 2>>)) = 1
    /\ response.status = 200
    /\ response.body.question.id = 3

----------------------------------------------------------------------------
(* C2: POST /quizzes answers 400 whenever the body lacks previous_questions *)
(* or lacks quiz_category.                                                  *)
C2_QuizMissingFieldIs400 ==
    ( /\ IsQuiz
      /\ request.json = "object"
      /\ \/ "previous_questions" \notin DOMAIN request.data
         \/ "quiz_category" \notin DOMAIN request.data )
    => response.status = 400

----------------------------------------------------------------------------
(* C3: every error response (400, 404, 422, 500) is an object with         *)
(* success = false, a field error equal to the status, and a message.      *)
C3_ErrorResponseShape ==
    response.status \in {400, 404, 422, 500} =>
        /\ {"success", "error", "message"} \subseteq DOMAIN response.body
        /\ response.body["success"] = FALSE
        /\ response.body["error"] = response.status

----------------------------------------------------------------------------
(* C4: POST /questions with any of question, answer, category, difficulty  *)
(* empty or absent answers 422 and adds no question.                       *)
C4_CreateMissingFieldIs422 ==
    ( /\ request.endpoint = "create_question"
      /\ request.json = "object"
      /\ \E k \in CreateKeys :
            \/ k \notin DOMAIN request.data
            \/ request.data[k] = EmptyStr )
    => /\ response.status = 422
       /\ questions = before.questions

\* a body whose difficulty is the empty string, the other fields given
C4_Witness ==
    /\ request.endpoint = "create_question"
    /\ request.json = "object"
    /\ DOMAIN request.data = CreateKeys
    /\ request.data["difficulty"] = EmptyStr
    /\ \A k \in CreateKeys \ {"difficulty"} : request.data[k] # EmptyStr
    /\ response.status = 422

----------------------------------------------------------------------------
\* the pages a listing is read in
ListingPages == { [page |-> p] : p \in 1..MaxPage }

\* the ids GET /questions lists, over its pages
ListedIds(stored, cats) ==
    UNION { LET r == get_questions_response(stored, cats, args)
            IN  IF r.status = 200
                THEN { q.id : q \in FormattedSet(r.body.questions) }
                ELSE {} :
            args \in ListingPages }

\* the ids GET /categories/<c>/questions lists, over its pages
ListedIdsOfCategory(stored, cats, c) ==
    UNION { LET r == get_questions_by_category_response(
                         stored, cats, c, args, order)
            IN  IF r.status = 200
                THEN { q.id : q \in FormattedSet(r.body.questions) }
                ELSE {} :
            args \in ListingPages, order \in Orders }

----------------------------------------------------------------------------
(* C6: DELETE /questions/<id> of a stored id answers 200 with question_id  *)
(* = id and removes exactly that question, which no later listing shows    *)
(* (an id that has left the store never returns); of an id that is not     *)
(* stored it answers 404 and leaves the store unchanged.                   *)
C6_Delete ==
    LET listed == ListedIds(questions, categories)
    IN  /\ request.endpoint = "delete_question" =>
              LET id == request.id
              IN  IF id \in Ids(before.questions)
                  THEN /\ response.status = 200
                       /\ response.body.question_id = id
                       /\ questions = { q \in before.questions : q.id # id }
                       /\ id \notin listed
                  ELSE /\ response.status = 404
                       /\ questions = before.questions
        /\ \A id \in (1..(before.nextId - 1)) \ Ids(before.questions) :
              id \notin Ids(questions) /\ id \notin listed

\* a question POST added was deleted with 200
C6_Witness ==
    /\ request.endpoint = "delete_question"
    /\ request.id = NumSeeded + 1
    /\ response.status = 200
    /\ Cardinality(questions) = NumSeeded

----------------------------------------------------------------------------
(* C7: for a page p >= 1 and a page size s, get_paginated_questions        *)
(* returns the elements at the 0-based positions [(p-1)*s, p*s) of the     *)
(* list, in order, clipped to the list: none when (p-1)*s is at least its  *)
(* length.                                                                 *)
C7_Paginate ==
    (request.endpoint = "get_paginated_questions" /\ PageArg(request.args) >= 1)
    => LET p == PageArg(request.args)
           s == request.num_of_questions
           n == Cardinality(questions)
       IN  /\ response = PageByRank(questions, s, p)
           /\ (p - 1) * s >= n => response = <<>>
           /\ Len(response) = Max(Min(p * s, n) - (p - 1) * s, 0)

\* 12 items in pages of 10: page 2 holds the items 11 and 12
C7_Witness ==
    /\ request.endpoint = "get_paginated_questions"
    /\ Cardinality(questions) = 12
    /\ request.num_of_questions = 10
    /\ PageArg(request.args) = 2
    /\ Len(response) = 2
    /\ response[1].id = 11
    /\ response[2].id = 12

----------------------------------------------------------------------------
(* C8: GET /questions?page=N (N >= 1, 1 when not given) answers 404        *)
(* exactly when page N, of size 10, of the id-ascending list of all        *)
(* questions is empty; otherwise 200 with that page in ascending id order  *)
(* and total_questions the number of questions of the store.               *)
C8_GetQuestions ==
    (request.endpoint = "get_questions" /\ PageArg(request.args) >= 1) =>
        LET page == PageByRank(questions, 10, PageArg(request.args))
        IN  IF page = <<>>
            THEN response.status = 404
            ELSE /\ response.status = 200
                 /\ response.body.questions = page
                 /\ \A i \in 1..(Len(page) - 1) :
                       response.body.questions[i].id
                           < response.body.questions[i + 1].id
                 /\ response.body.total_questions = Cardinality(questions)

\* page 2 of a store of more than 10 questions
C8_Witness ==
    /\ request.endpoint = "get_questions"
    /\ PageArg(request.args) = 2
    /\ response.status = 200
    /\ response.body.total_questions = 12
    /\ Len(response.body.questions) = 2

----------------------------------------------------------------------------
(* C9: a successful GET /questions response carries success, questions,    *)
(* total_questions, categories and current_category.                       *)
C9_GetQuestionsFields ==
    (request.endpoint = "get_questions" /\ response.status = 200) =>
        {"success", "questions", "total_questions", "categories",
         "current_category"} \subseteq DOMAIN response.body

----------------------------------------------------------------------------
\* text contains term as a substring, case folded
Contains(text, term) ==
    \E i \in 0..(Len(text) - Len(term)) :
        \A j \in 1..Len(term) : Lower(text[i + j]) = Lower(term[j])

(* C10: POST /questions/search with searchTerm t (and no page argument)    *)
(* returns only questions whose text contains t, case-insensitively; it    *)
(* answers 404 when no question matches; and with the empty term it        *)
(* returns all questions of the store.                                     *)
C10_Search ==
    ( /\ request.endpoint = "search_questions"
      /\ request.json = "object"
      /\ request.args = NoArgs ) =>
        LET t == Get(request.data, "searchTerm", EmptyStr).str
            matching == { q \in questions : Contains(q.question.str, t) }
        IN  /\ response.status = 200 =>
                  \A q \in FormattedSet(response.body.questions) :
                      Contains(q.question.str, t)
            /\ matching = {} => response.status = 404
            /\ t = <<>> =>
                  /\ response.status = 200
                  /\ FormattedSet(response.body.questions)
                         = { Format(q) : q \in questions }

----------------------------------------------------------------------------
IsByCategory == request.endpoint = "get_questions_by_category"
\* the stored questions of category c
OfCategory(c) == { q \in questions : q.category = Num(c) }

(* C11 as stated: GET /categories/<id>/questions answers 422 when no       *)
(* category has that id, 404 when the category has no question, and        *)
(* otherwise 200 with only questions of that category, their number as     *)
(* total_questions and the category's label as current_category.           *)
C11_ByCategory_Original ==
    IsByCategory =>
        LET id == request.id
            category == { c \in categories : c.id = id }
        IN  IF category = {} THEN response.status = 422
            ELSE IF OfCategory(id) = {} THEN response.status = 404
            ELSE /\ response.status = 200
                 /\ \A q \in FormattedSet(response.body.questions) :
                       q.category = Num(id)
                 /\ response.body.total_questions = Cardinality(OfCategory(id))
                 /\ \E c \in category : response.body.current_category = c.type

(* C11 amended: it answers 422 when no category has that id, 404 when the  *)
(* requested page (page >= 1, page 1 when none is given, 10 per page) of   *)
(* the category's questions is empty, as it is when the category has no    *)
(* question, and otherwise 200 with only stored questions of that          *)
(* category, total_questions the number of questions of the category and   *)
(* current_category its label.                                             *)
C11_ByCategory ==
    (IsByCategory /\ PageArg(request.args) >= 1) =>
        LET id == request.id
            category == { c \in categories : c.id = id }
            offset == (PageArg(request.args) - 1) * QUESTIONS_PER_PAGE
        IN  IF category = {} THEN response.status = 422
            ELSE IF offset >= Cardinality(OfCategory(id))
            THEN response.status = 404
            ELSE /\ response.status = 200
                 /\ \A q \in FormattedSet(response.body.questions) :
                       /\ q.category = Num(id)
                       /\ \E row \in questions : Format(row) = q
                 /\ Len(response.body.questions)
                        = Min(QUESTIONS_PER_PAGE,
                              Cardinality(OfCategory(id)) - offset)
                 /\ response.body.total_questions = Cardinality(OfCategory(id))
                 /\ \E c \in category : response.body.current_category = c.type

\* category 3, seeded without questions, lists the question POST added to it
C11_Witness ==
    /\ IsByCategory
    /\ request.id = 3
    /\ response.status = 200
    /\ response.body.total_questions = 1
    /\ response.body.current_category = "Geography"

----------------------------------------------------------------------------
(* C12: when no question is eligible for a POST /quizzes request, the      *)
(* response is an internal-error response, HTTP 500 with success = false,  *)
(* never a success response.                                               *)
C12_QuizExhaustedIs500 ==
    ( /\ IsFullQuiz
      /\ Eligible(request.data.quiz_category.id,
                  request.data.previous_questions) = {} )
    => /\ response.status = 500
       /\ response.body["success"] = FALSE

----------------------------------------------------------------------------
(* C13: on every endpoint, a request during which the store raises is      *)
(* answered with the internal-error response, HTTP 500, not 404 or 422.    *)
C13_StoreFailureIs500 ==
    "store" \in DOMAIN request =>
        /\ response.status = 500
        /\ response.body["success"] = FALSE

----------------------------------------------------------------------------
\* the ids of the questions a 200 response of GET /questions lists
ResponseIds(resp) ==
    IF resp.status = 200
    THEN { q.id : q \in FormattedSet(resp.body.questions) }
    ELSE {}

Created200 == request.endpoint = "create_question" /\ response.status = 200
Deleted200 == request.endpoint = "delete_question" /\ response.status = 200

(* C14 as stated: after a successful POST /questions returning question_id *)
(* q, the next GET /questions without page argument includes q; after a    *)
(* DELETE /questions/q answering 200, the next GET /questions excludes q.  *)
C14_EndToEnd_Original ==
    [][ /\ ( /\ Created200
             /\ request'.endpoint = "get_questions"
             /\ request'.args = NoArgs )
           => response.body.question_id \in ResponseIds(response')
        /\ ( /\ Deleted200
             /\ request'.endpoint = "get_questions"
             /\ request'.args = NoArgs )
           => request.id \notin ResponseIds(response')
      ]_vars

(* C14 amended: after a successful POST /questions returning question_id   *)
(* q, the next GET /questions for page p >= 1 (page 1 when no page is      *)
(* given) includes q exactly when the number n of stored questions         *)
(* satisfies (p-1)*10 < n <= p*10, q being the last in id order; after a   *)
(* DELETE /questions/q answering 200, the next GET /questions excludes q   *)
(* on every page.                                                          *)
C14_EndToEnd ==
    [][ /\ ( /\ Created200
             /\ request'.endpoint = "get_questions"
             /\ PageArg(request'.args) >= 1 )
           => LET q == response.body.question_id
                  p == PageArg(request'.args)
                  n == Cardinality(questions)
              IN  /\ \A r \in questions : r.id <= q
                  /\ q \in ResponseIds(response')
                       <=> /\ (p - 1) * QUESTIONS_PER_PAGE < n
                           /\ n <= p * QUESTIONS_PER_PAGE
        /\ ( /\ Deleted200
             /\ request'.endpoint = "get_questions" )
           => request.id \notin ResponseIds(response')
      ]_vars

\* the created question 11 is listed by GET /questions?page=2
C14_Witness ==
    /\ request.endpoint = "get_questions"
    /\ request.args = [page |-> 2]
    /\ response.status = 200
    /\ NumSeeded + 1 \in ResponseIds(response)
    /\ \E q \in questions : q.id = NumSeeded + 1

----------------------------------------------------------------------------
----------------------------------------------------------------------------
(* C16: a POST /questions answering 200 adds exactly one question and      *)
(* changes no other; a DELETE /questions/<id> answering 200 removes        *)
(* exactly the question with that id and changes no other; every other     *)
(* request, the read endpoints and every request answered with an error,   *)
(* leaves the questions as they were; the categories never change.         *)
C16_Frame ==
    /\ categories = SeedCategories
    /\ IF Created200
       THEN \E q \in questions :
               /\ q \notin before.questions
               /\ q.id = response.body.question_id
               /\ questions = before.questions \cup {q}
       ELSE IF Deleted200
       THEN \E q \in before.questions :
               /\ q.id = request.id
               /\ questions = before.questions \ {q}
               /\ \A r \in questions : r.id # request.id
       ELSE questions = before.questions

\* a DELETE answered 200 after which a question less is stored
C16_Witness ==
    /\ Deleted200
    /\ Cardinality(questions) = NumSeeded
    /\ Cardinality(before.questions) = NumSeeded + 1

----------------------------------------------------------------------------
(* C17: for every page argument below 1, GET /questions answers 404 and    *)
(* returns no questions.                                                   *)
C17_PageBelowOneIs404 ==
    ( /\ request.endpoint = "get_questions"
      /\ PageArg(request.args) < 1 )
    => response.status = 404

----------------------------------------------------------------------------
(* C18: in every POST /quizzes response with status 200, totalQuestions is *)
(* at least 1 and is the number of eligible questions, and the returned    *)
(* question is one of them, also when another client's DELETE or POST      *)
(* /questions runs between the two queries of the handler.                 *)
C18_QuizTotalConsistent ==
    (IsQuiz /\ response.status = 200) =>
        LET eligible == Eligible(request.data.quiz_category.id,
                                 request.data.previous_questions)
        IN  /\ response.body.totalQuestions >= 1
            /\ response.body.totalQuestions = Cardinality(eligible)
            /\ \E q \in eligible : Format(q) = response.body.question

----------------------------------------------------------------------------
(* The booking app: GET /venues *)

\* the most venues stored
MaxVenues == 3

Cities == {"San Francisco", "New York"}
States == {"CA", "NY"}

\* the Venue tables tried: venues 1..n, each in any city and state
VenueTables ==
    UNION { { { [id |-> i, name |-> "venue", city |-> city[i],
                 state |-> state[i]] : i \in 1..n } :
                city \in [1..n -> Cities], state \in [1..n -> States] } :
            n \in 0..MaxVenues }

\* the orders in which Python may iterate over the set s
Iterations(s) ==
    { list \in [1..Cardinality(s) -> s] :
        \A x \in s : \E i \in 1..Cardinality(s) : list[i] = x }

\* lines 116-120: the set of the (city, state) pairs of the venues
Places(all_venues) ==
    { <<all_venues[i].city, all_venues[i].state>> : i \in 1..Len(all_venues) }

\* RelatedVenues comparing the city alone
RelatedVenues_CityOnly(all_venues, place) ==
    SelectSeq(all_venues, LAMBDA current_venue : current_venue.city = place[1])

\* lines 123-125: the venues of the place, in the order of all_venues
RelatedVenues(all_venues, place) ==
    SelectSeq(all_venues,
              LAMBDA current_venue : /\ current_venue.city = place[1]
                                     /\ current_venue.state = place[2])

\* lines 122-135: the area of a place
PlaceVenues(all_venues, place) ==
    LET related_venues_list == RelatedVenues(all_venues, place)
    IN  [city |-> place[1],
         state |-> place[2],
         venues |-> [i \in 1..Len(related_venues_list) |->
                        [id |-> related_venues_list[i].id,
                         name |-> related_venues_list[i].name,
                         num_upcoming_shows |-> 0]]]

\* the handler: Venue.query.all() in the order the store gives, the places
\* in the order the set iterates
venues(order, places) ==
    LET all_venues == All(Venue, order)
        data == [i \in 1..Len(places) |-> PlaceVenues(all_venues, places[i])]
    IN  /\ Arrive
        /\ request' = [endpoint |-> "venues"]
        /\ response' = [status |-> 200, areas |-> data]
        /\ UNCHANGED <<questions, categories, nextId, quiz, Venue>>

InitVenues ==
    /\ Venue \in VenueTables
    /\ questions = {}
    /\ categories = {}
    /\ nextId = 1
    /\ request = [endpoint |-> "none"]
    /\ response = [status |-> 0]
    /\ before = [questions |-> questions, nextId |-> nextId]
    /\ quiz = Idle

NextVenues ==
    \E order \in Orders :
        \E places \in Iterations(Places(All(Venue, order))) :
            venues(order, places)

SpecVenues == InitVenues /\ [][NextVenues]_vars

----------------------------------------------------------------------------
\* the indexes of the areas of the listing that have v's city and state
AreasOf(areas, v) ==
    { i \in 1..Len(areas) : areas[i].city = v.city /\ areas[i].state = v.state }

\* how often the venue with this id is listed in the area
TimesListed(area, id) ==
    Cardinality({ j \in 1..Len(area.venues) : area.venues[j].id = id })

(* C19: in the listing of GET /venues the areas partition the venues by    *)
(* (city, state): every (city, state) pair of a stored venue is exactly    *)
(* one area, every venue is listed in exactly one area, the one of its     *)
(* own city and state, and no area is empty.                               *)
C19_AreasPartition ==
    request.endpoint = "venues" =>
        LET areas == response.areas
        IN  /\ \A v \in Venue : Cardinality(AreasOf(areas, v)) = 1
            /\ \A v \in Venue : \A i \in 1..Len(areas) :
                   TimesListed(areas[i], v.id)
                       = IF i \in AreasOf(areas, v) THEN 1 ELSE 0
            /\ \A i \in 1..Len(areas) :
                   /\ Len(areas[i].venues) >= 1
                   /\ \A j \in 1..Len(areas[i].venues) :
                          \E v \in Venue : v.id = areas[i].venues[j].id

\* three venues, two of them in the same city and state: two areas
C19_Witness ==
    /\ request.endpoint = "venues"
    /\ Cardinality(Venue) = 3
    /\ Len(response.areas) = 2
    /\ \E i \in 1..2 : Len(response.areas[i].venues) = 2

====
